---- MODULE Spec2Model ----
(***************************************************************************)
(* A model of src/app.py: the keyword scraper's text normalizer, context  *)
(* classifier (get_structured_data), link relevance filter                 *)
(* (find_relevant_links), crawl orchestrator (scrape_logic) and the        *)
(* "Start Scraping" handler that validates the operator's input, runs the  *)
(* orchestrator and reports the outcome.                                   *)
(*                                                                         *)
(* Python strings are sequences of one-character strings, so that          *)
(* splitting, stripping, whitespace collapsing, lower-casing, substring    *)
(* search and slicing are computed, not assumed.  A parsed document is a   *)
(* sequence of nodes in document order, each naming its tag and its        *)
(* parent's index (0 is the BeautifulSoup object itself).                  *)
(***************************************************************************)
EXTENDS Integers, Sequences, FiniteSets

----------------------------------------------------------------------------
(* Strings *)

Whitespace == {" ", "\t", "\n"}

\* str.lower() on the characters the model's inputs use
ToLower == [c \in {"F", "E", "A", "B", "C"} |->
              CASE c = "F" -> "f" [] c = "E" -> "e" [] c = "A" -> "a"
                [] c = "B" -> "b" [] c = "C" -> "c"]

LowerChar(c) == IF c \in DOMAIN ToLower THEN ToLower[c] ELSE c

Lower(s) == [i \in 1..Len(s) |-> LowerChar(s[i])]

SetMin(S) == CHOOSE i \in S : \A j \in S : i <= j

SetMax(S) == CHOOSE i \in S : \A j \in S : j <= i

Max2(a, b) == IF a >= b THEN a ELSE b

Min2(a, b) == IF a <= b THEN a ELSE b

\* the 0-based offsets at which sub occurs in s
Occurrences(s, sub) ==
  {i \in 0..(Len(s) - Len(sub)) : SubSeq(s, i + 1, i + Len(sub)) = sub}

\* str.find: the first 0-based offset of sub in s, or -1
Find(s, sub) ==
  IF Occurrences(s, sub) = {} THEN -1 ELSE SetMin(Occurrences(s, sub))

\* the Python operator "sub in s"
Contains(s, sub) == Occurrences(s, sub) # {}

\* the Python slice s[start:end] for 0 <= start, end <= len(s)
Slice(s, start, end) == SubSeq(s, start + 1, end)

\* str.strip()
Strip(s) ==
  LET solid == {i \in 1..Len(s) : s[i] \notin Whitespace}
  IN  IF solid = {} THEN <<>> ELSE SubSeq(s, SetMin(solid), SetMax(solid))

\* re.sub(r"\s+", " ", text) on the characters lo..hi of text: the first
\* character of every whitespace run becomes one space, the rest are dropped
RECURSIVE CollapseRange(_, _, _)
CollapseRange(text, lo, hi) ==
  IF lo > hi THEN <<>>
  ELSE IF lo = hi
       THEN IF text[lo] \notin Whitespace THEN <<text[lo]>>
            ELSE IF lo > 1 /\ text[lo - 1] \in Whitespace THEN <<>>
            ELSE <<" ">>
       ELSE LET mid == (lo + hi) \div 2
            IN  CollapseRange(text, lo, mid) \o CollapseRange(text, mid + 1, hi)

clean_text(text) == Strip(CollapseRange(text, 1, Len(text)))

\* sep.join(parts)
RECURSIVE Join(_, _)
Join(parts, sep) ==
  IF parts = <<>> THEN <<>>
  ELSE IF Len(parts) = 1 THEN parts[1]
  ELSE parts[1] \o sep \o Join(Tail(parts), sep)

\* s.split(","): the pieces between the commas (always at least one piece)
RECURSIVE SplitComma(_)
SplitComma(s) ==
  LET commas == {i \in 1..Len(s) : s[i] = ","}
  IN  IF commas = {} THEN <<s>>
      ELSE <<SubSeq(s, 1, SetMin(commas) - 1)>>
             \o SplitComma(SubSeq(s, SetMin(commas) + 1, Len(s)))

\* [k.strip() for k in keywords_input.split(",") if k.strip()]
RECURSIVE StripNonEmpty(_)
StripNonEmpty(parts) ==
  IF parts = <<>> THEN <<>>
  ELSE IF Strip(parts[1]) = <<>> THEN StripNonEmpty(Tail(parts))
  ELSE <<Strip(parts[1])>> \o StripNonEmpty(Tail(parts))

ParseKeywords(input) == StripNonEmpty(SplitComma(input))

Rep(c, n) == [i \in 1..n |-> c]

----------------------------------------------------------------------------
(* The parsed document *)

TextTag == "#text"

Elem(tag, parent) == [tag |-> tag, parent |-> parent, text |-> <<>>]

Text(parent, text) == [tag |-> TextTag, parent |-> parent, text |-> text]

\* tag.name; the BeautifulSoup object (index 0) is named "[document]"
NameOf(doc, i) == IF i = 0 THEN "[document]" ELSE doc[i].tag

\* tag.parent; -1 stands for None (the BeautifulSoup object has no parent)
ParentOf(doc, i) == IF i = 0 THEN -1 ELSE doc[i].parent

\* tag.parents: the proper ancestors of node i, nearest first
RECURSIVE Parents(_, _)
Parents(doc, i) ==
  IF i = 0 THEN <<>> ELSE <<doc[i].parent>> \o Parents(doc, doc[i].parent)

\* tag.find_parent(name): the nearest proper ancestor named name, or -1
find_parent(doc, i, name) ==
  LET ps  == Parents(doc, i)
      hit == {k \in 1..Len(ps) : NameOf(doc, ps[k]) = name}
  IN  IF hit = {} THEN -1 ELSE ps[SetMin(hit)]

\* whether node j lies in the subtree of node i (i itself included)
InSubtree(doc, i, j) == j = i \/ \E k \in 1..Len(Parents(doc, j)) : Parents(doc, j)[k] = i

\* the text nodes below node i, in document order
RECURSIVE StringsFrom(_, _, _)
StringsFrom(doc, i, j) ==
  IF j > Len(doc) THEN <<>>
  ELSE IF doc[j].tag = TextTag /\ InSubtree(doc, i, j)
       THEN <<doc[j].text>> \o StringsFrom(doc, i, j + 1)
       ELSE StringsFrom(doc, i, j + 1)

\* tag.get_text(separator)
get_text(doc, i, sep) == Join(StringsFrom(doc, i, 1), sep)

\* tr.find_all(["td", "th"]): every cell below the row, in document order
RECURSIVE CellsFrom(_, _, _)
CellsFrom(doc, tr, j) ==
  IF j > Len(doc) THEN <<>>
  ELSE IF j # tr /\ doc[j].tag \in {"td", "th"} /\ InSubtree(doc, tr, j)
       THEN <<j>> \o CellsFrom(doc, tr, j + 1)
       ELSE CellsFrom(doc, tr, j + 1)

\* tag.find_next_sibling(): the next element with the same parent, or -1
find_next_sibling(doc, i) ==
  LET sibs == {j \in (i + 1)..Len(doc) :
                 doc[j].parent = doc[i].parent /\ doc[j].tag # TextTag}
  IN  IF sibs = {} THEN -1 ELSE SetMin(sibs)

\* soup.find_all(string=re.compile(re.escape(kw), re.IGNORECASE)): the text
\* nodes whose raw string contains kw, case-insensitively, in document order
RECURSIVE MatchesFrom(_, _, _)
MatchesFrom(doc, kw, j) ==
  IF j > Len(doc) THEN <<>>
  ELSE IF doc[j].tag = TextTag /\ Contains(Lower(doc[j].text), Lower(kw))
       THEN <<j>> \o MatchesFrom(doc, kw, j + 1)
       ELSE MatchesFrom(doc, kw, j + 1)

FindMatches(doc, kw) == MatchesFrom(doc, kw, 1)

----------------------------------------------------------------------------
(* get_structured_data *)

TruncateOver == 300

WindowBefore == 50

WindowAfter == 150

MinBlockLen == 3

HeaderTags == {"dt", "b", "strong", "h1", "h2", "h3", "h4", "h5", "h6"}

BlockTags == {"p", "div", "article"}

Copyright == <<"c", "o", "p", "y", "r", "i", "g", "h", "t">>

Ellipsis == <<".", ".", ".">>

\* [clean_text(td.get_text()) for td in tr.find_all(["td", "th"])]
RECURSIVE CellTexts(_, _)
CellTexts(doc, cells) ==
  IF cells = <<>> THEN <<>>
  ELSE <<clean_text(get_text(doc, cells[1], <<>>))>> \o CellTexts(doc, Tail(cells))

\* the fallback's walk up from the match's element to a p, div or article,
\* stopping on arrival at body or at the parentless BeautifulSoup object
RECURSIVE ContainerOf(_, _)
ContainerOf(doc, c) ==
  IF ParentOf(doc, c) # -1 /\ NameOf(doc, c) \notin BlockTags
  THEN IF NameOf(doc, ParentOf(doc, c)) = "body" THEN ParentOf(doc, c)
       ELSE ContainerOf(doc, ParentOf(doc, c))
  ELSE c

\* the truncation of a fallback block longer than 300 characters
Truncate(block, kw) ==
  LET start_idx == Find(Lower(block), Lower(kw))
      start     == Max2(0, start_idx - WindowBefore)
      end       == Min2(Len(block), start_idx + WindowAfter)
  IN  Ellipsis \o Slice(block, start, end) \o Ellipsis

\* which of the four branches the if/elif chain takes for the match whose
\* parent element is element
ContextTypeOf(doc, element) ==
  IF find_parent(doc, element, "tr") # -1 THEN "Table Row"
  ELSE IF NameOf(doc, element) \in HeaderTags THEN "Section Header"
  ELSE IF find_parent(doc, element, "li") # -1 THEN "List Item"
  ELSE "Text Block"

TableRowBlock(doc, element) ==
  Join(CellTexts(doc, CellsFrom(doc, find_parent(doc, element, "tr"), 1)),
       <<" ", "|", " ">>)

SectionHeaderBlock(doc, element) ==
  LET header    == clean_text(get_text(doc, element, <<>>))
      next_node == find_next_sibling(doc, element)
      value     == IF next_node # -1 THEN clean_text(get_text(doc, next_node, <<>>))
                   ELSE <<>>
  IN  IF value # <<>> THEN header \o <<":", " ">> \o value
      ELSE clean_text(get_text(doc, ParentOf(doc, element), <<>>))

ListItemBlock(doc, element) ==
  clean_text(get_text(doc, find_parent(doc, element, "li"), <<" ">>))

TextBlockBlock(doc, element, kw) ==
  LET whole == clean_text(get_text(doc, ContainerOf(doc, element), <<" ">>))
  IN  IF Len(whole) > TruncateOver THEN Truncate(whole, kw) ELSE whole

\* block_text for the match node under keyword kw
BlockTextOf(doc, kw, match) ==
  LET element == ParentOf(doc, match)
      ty      == ContextTypeOf(doc, element)
  IN  CASE ty = "Table Row"      -> TableRowBlock(doc, element)
        [] ty = "Section Header" -> SectionHeaderBlock(doc, element)
        [] ty = "List Item"      -> ListItemBlock(doc, element)
        [] OTHER                 -> TextBlockBlock(doc, element, kw)

\* len(block_text) < 3 or "copyright" in block_text.lower()
Discarded(block) ==
  Len(block) < MinBlockLen \/ Contains(Lower(block), Copyright)

\* block_text not in seen_blocks
IsNewBlock(block, seen) == block \notin seen

\* one iteration of the loop over matches: the record appended, if any
RecordsOfMatch(doc, kw, match, seen) ==
  LET block == BlockTextOf(doc, kw, match)
  IN  IF ~Discarded(block) /\ IsNewBlock(block, seen)
      THEN <<[keyword |-> kw, context |-> block,
              type |-> ContextTypeOf(doc, ParentOf(doc, match))]>>
      ELSE <<>>

SeenAfterMatch(doc, kw, match, seen) ==
  LET block == BlockTextOf(doc, kw, match)
  IN  IF ~Discarded(block) THEN seen \cup {block} ELSE seen

\* the loop over one keyword's matches, from match number n on
RECURSIVE ScanMatches(_, _, _, _, _)
ScanMatches(doc, kw, matches, n, seen) ==
  IF n > Len(matches) THEN <<>>
  ELSE RecordsOfMatch(doc, kw, matches[n], seen)
         \o ScanMatches(doc, kw, matches, n + 1,
                        SeenAfterMatch(doc, kw, matches[n], seen))

\* the loop over keywords: seen_blocks starts empty for every keyword
RECURSIVE get_structured_data(_, _)
get_structured_data(doc, keywords) ==
  IF keywords = <<>> THEN <<>>
  ELSE ScanMatches(doc, keywords[1], FindMatches(doc, keywords[1]), 1, {})
         \o get_structured_data(doc, Tail(keywords))

----------------------------------------------------------------------------
(* Inputs: keywords and pages *)

W_fee == <<"f", "e", "e">>

W_Fee == <<"F", "e", "e">>

\* a keyword typed with two spaces inside; strip() keeps inner whitespace
W_gap == <<"a", " ", " ", "b">>

W_rate == <<"1", ".", "5", "%">>

W_500 == <<"5", "0", "0">>

\* <body><div><table><tr><td>Fee</td><td>1.5%</td></tr></table></div></body>
DocTable ==
  <<Elem("body", 0), Elem("div", 1), Elem("table", 2), Elem("tr", 3),
    Elem("td", 4), Text(5, W_Fee), Elem("td", 4), Text(7, W_rate)>>

\* <body><ul><li>fee 500</li></ul></body>
DocListDirect ==
  <<Elem("body", 0), Elem("ul", 1), Elem("li", 2), Text(3, W_fee \o <<" ">> \o W_500)>>

\* <body><ul><li><span>fee</span> 500</li></ul></body>
DocListSpan ==
  <<Elem("body", 0), Elem("ul", 1), Elem("li", 2), Elem("span", 3),
    Text(4, W_fee), Text(3, <<" ">> \o W_500)>>

\* <body><div><h2>Fee</h2><p>500 a  b</p></div></body>
DocHeader ==
  <<Elem("body", 0), Elem("div", 1), Elem("h2", 2), Text(3, W_Fee),
    Elem("p", 2), Text(5, W_500 \o <<" ">> \o W_gap)>>

\* <body><ul><li><b>fee</b></li></ul></body>
DocHeaderInList ==
  <<Elem("body", 0), Elem("ul", 1), Elem("li", 2), Elem("b", 3), Text(4, W_fee)>>

\* <body><ul><li><table><tr><td>fee</td></tr></table></li></ul></body>
DocRowInList ==
  <<Elem("body", 0), Elem("ul", 1), Elem("li", 2), Elem("table", 3),
    Elem("tr", 4), Elem("td", 5), Text(6, W_fee)>>

\* <body><p>fee <span>Fee 500</span> fee</p></body>: three matching text
\* nodes that share one container
DocSharedBlock ==
  <<Elem("body", 0), Elem("p", 1), Text(2, W_fee \o <<" ">>), Elem("span", 2),
    Text(4, W_Fee \o <<" ">> \o W_500), Text(2, <<" ">> \o W_fee)>>

\* <body><p>copyright fee</p><p>fe</p></body>
DocFiltered ==
  <<Elem("body", 0), Elem("p", 1), Text(2, Copyright \o <<" ">> \o W_fee),
    Elem("p", 1), Text(4, <<"f", "e">>)>>

\* <body><div><p>xx..x fee a  b yy..y</p></div></body>
DocLong(before, after) ==
  <<Elem("body", 0), Elem("div", 1), Elem("p", 2),
    Text(3, Rep("x", before) \o <<" ">> \o W_fee \o <<"\n", " ">> \o W_gap
              \o <<" ">> \o Rep("y", after))>>

PadsBefore == {0, 60, 200}

PadsAfter == {40, 320}

ClassifierPages ==
  {DocTable, DocListDirect, DocListSpan, DocHeader, DocHeaderInList,
   DocRowInList, DocSharedBlock, DocFiltered}
    \cup {DocLong(b, a) : b \in PadsBefore, a \in PadsAfter}

KeywordPool == {W_fee, W_Fee, W_gap, <<"f", "e">>}

MaxKeywords == 2

\* the keyword lists the handler can pass: non-empty stripped strings, in any
\* order, repeats allowed
KeywordLists ==
  UNION {[1..n -> KeywordPool] : n \in 1..MaxKeywords}

----------------------------------------------------------------------------
(* URLs and find_relevant_links *)

Http == <<"h", "t", "t", "p", ":", "/", "/">>

HasScheme(u) == Len(u) >= Len(Http) /\ SubSeq(u, 1, Len(Http)) = Http

\* the index just past the authority of an absolute URL
AuthorityEnd(u) ==
  LET stops == {i \in (Len(Http) + 1)..Len(u) : u[i] \in {"/", "?", "#"}}
  IN  IF stops = {} THEN Len(u) + 1 ELSE SetMin(stops)

\* urlparse(u).netloc
netloc(u) ==
  IF HasScheme(u) THEN SubSeq(u, Len(Http) + 1, AuthorityEnd(u) - 1) ELSE <<>>

\* u without its "#fragment"
WithoutFragment(u) ==
  LET hashes == {i \in 1..Len(u) : u[i] = "#"}
  IN  IF hashes = {} THEN u ELSE SubSeq(u, 1, SetMin(hashes) - 1)

\* the absolute URL base up to and including the last "/" of its path
DirectoryOf(base) ==
  LET b       == WithoutFragment(base)
      slashes == {i \in AuthorityEnd(b)..Len(b) : b[i] = "/"}
  IN  IF slashes = {} THEN SubSeq(b, 1, AuthorityEnd(b) - 1) \o <<"/">>
      ELSE SubSeq(b, 1, SetMax(slashes))

\* urljoin(base, href) for an absolute http base and an href that is empty,
\* absolute, scheme-relative, root-relative, a fragment or a relative path
\* without dot segments
urljoin(base, href) ==
  IF href = <<>> THEN base
  ELSE IF HasScheme(href) THEN href
  ELSE IF Len(href) >= 2 /\ SubSeq(href, 1, 2) = <<"/", "/">>
       THEN <<"h", "t", "t", "p", ":">> \o href
  ELSE IF href[1] = "/" THEN SubSeq(base, 1, AuthorityEnd(base) - 1) \o href
  ELSE IF href[1] = "#" THEN WithoutFragment(base) \o href
  ELSE DirectoryOf(base) \o href

\* link.get_text(" ", strip=True)
GetTextStripped(doc, i) == Join(StripNonEmpty(StringsFrom(doc, i, 1)), <<" ">>)

\* soup.find_all("a", href=True)
AnchorsOf(doc) ==
  {j \in 1..Len(doc) : doc[j].tag = "a" /\ "href" \in DOMAIN doc[j]}

\* kw.lower() in text or kw.lower() in href.lower(), for some keyword
LinkMentions(doc, j, keywords) ==
  \E k \in 1..Len(keywords) :
    \/ Contains(Lower(GetTextStripped(doc, j)), Lower(keywords[k]))
    \/ Contains(Lower(doc[j].href), Lower(keywords[k]))

find_relevant_links(base_url, doc, keywords) ==
  {urljoin(base_url, doc[j].href) :
     j \in {a \in AnchorsOf(doc) :
              /\ netloc(urljoin(base_url, doc[a].href)) = netloc(base_url)
              /\ LinkMentions(doc, a, keywords)}}

----------------------------------------------------------------------------
(* The site the run crawls *)

Anchor(parent, href) ==
  [tag |-> "a", parent |-> parent, text |-> <<>>, href |-> href]

BaseUrl == Http \o <<"a", "/">>

UrlFee == Http \o <<"a", "/">> \o W_fee

UrlX == Http \o <<"a", "/", "x">>

UrlTop == Http \o <<"a", "/", "#">> \o W_fee

\* the anchors a seed page may carry: href and visible text
AnchorPool ==
  << [href |-> <<"/">> \o W_fee,             text |-> W_Fee \o <<"s">>],
     [href |-> <<"x">>,                      text |-> <<" ">> \o W_fee \o <<" ">>],
     [href |-> Http \o <<"b", "/">> \o W_fee, text |-> W_fee],
     [href |-> <<>>,                         text |-> W_fee],
     [href |-> UrlFee,                       text |-> <<"m", "o", "r", "e">>],
     [href |-> <<"/", "a", "b">>,            text |-> <<"A", "b">>],
     [href |-> <<"#">> \o W_fee,             text |-> <<"t", "o", "p">>] >>

MaxAnchors == 3

\* the seed page: <body><p>Fee 500</p><a href=..>..</a>...</body>
RECURSIVE AnchorNodes(_, _)
AnchorNodes(picked, at) ==
  IF picked = <<>> THEN <<>>
  ELSE <<Anchor(1, AnchorPool[picked[1]].href), Text(at, AnchorPool[picked[1]].text)>>
         \o AnchorNodes(Tail(picked), at + 2)

SeedDoc(picked) ==
  <<Elem("body", 0), Elem("p", 1), Text(2, W_Fee \o <<" ">> \o W_500)>>
    \o AnchorNodes(picked, 4)

\* the ascending sequence of the members of a set of pool indices
RECURSIVE Ascending(_)
Ascending(S) ==
  IF S = {} THEN <<>> ELSE <<SetMin(S)>> \o Ascending(S \ {SetMin(S)})

\* what the site serves at url when the fetch succeeds (a fragment is not
\* sent to the server, so "/#fee" serves the seed page again)
PageOf(url, picked) ==
  CASE url = BaseUrl -> SeedDoc(picked)
    [] url = UrlTop  -> SeedDoc(picked)
    [] url = UrlFee  -> DocTable
    [] url = UrlX    -> DocSharedBlock
    [] OTHER         -> <<Elem("body", 0)>>

\* item["url"] = url for every item
Tagged(records, url) ==
  [k \in 1..Len(records) |->
     [keyword |-> records[k].keyword, context |-> records[k].context,
      type |-> records[k].type, url |-> url]]

\* the contents of the "Keywords (comma separated)" field
KeywordInputs ==
  { <<>>,
    <<" ", ",", " ">>,
    W_fee,
    W_fee \o <<",">> \o W_fee,
    <<" ">> \o W_Fee \o <<",", " ">> \o <<"a", "b">>,
    <<"z">> }

UrlInputs == {<<>>, BaseUrl}

----------------------------------------------------------------------------
(* State *)

VARIABLES
  \* the operator's form and the world around one press of "Start Scraping"
  url_input,       \* the "Target URL" field
  keywords_input,  \* the "Keywords" field
  picked,          \* which anchors of AnchorPool the seed page carries
  sheet,           \* the rows of the worksheet
  \* the handler and scrape_logic
  pc,              \* idle, phase1, loop, fetch, returned, finished
  keywords_list,
  all_data,
  visited_urls,
  child_links,
  todo,            \* the links the for loop has not reached yet
  link,            \* the loop variable
  run_results,     \* what scrape_logic returned to the handler
  status,          \* what the status placeholder shows
  shown,           \* the message boxes written with st.error / st.info / ...
  calls,           \* the requests.get and time.sleep calls made, in order
  \* one call of get_structured_data, loop by loop
  gs_pc,           \* keyword, match, done
  soup,
  keywords,
  kw_idx,          \* the position of kw in keywords
  matches,
  match_idx,       \* the position of match in matches
  seen_blocks,
  block_text,
  context_type,
  results

crawl_vars ==
  <<url_input, keywords_input, picked, sheet, pc, keywords_list, all_data,
    visited_urls, child_links, todo, link, run_results, status, shown, calls>>

classifier_vars ==
  <<gs_pc, soup, keywords, kw_idx, matches, match_idx, seen_blocks,
    block_text, context_type, results>>

vars == <<crawl_vars, classifier_vars>>

Get(url, ok) == [op |-> "get", url |-> url, ok |-> ok]

Sleep(url) == [op |-> "sleep", url |-> url, ok |-> TRUE]

HeaderRow ==
  <<"Source URL", "Keyword Matched", "Extracted Context", "Type", "Timestamp">>

\* [r["url"], r["keyword"], r["context"], r["type"], timestamp] for every r
RowsOf(records) ==
  [k \in 1..Len(records) |->
     <<records[k].url, records[k].keyword, records[k].context,
       records[k].type, "timestamp">>]

CrawlIdle ==
  /\ pc = "idle"
  /\ keywords_list = <<>>
  /\ all_data = <<>>
  /\ visited_urls = {}
  /\ child_links = {}
  /\ todo = {}
  /\ link = <<>>
  /\ run_results = <<>>
  /\ status = "empty"
  /\ shown = {}
  /\ calls = <<>>

ClassifierIdle ==
  /\ gs_pc = "done"
  /\ soup = <<>>
  /\ keywords = <<>>
  /\ kw_idx = 0
  /\ matches = <<>>
  /\ match_idx = 0
  /\ seen_blocks = {}
  /\ block_text = <<>>
  /\ context_type = "none"
  /\ results = <<>>

Init ==
  /\ url_input \in UrlInputs
  /\ keywords_input \in KeywordInputs
  /\ picked \in {Ascending(S) : S \in {T \in SUBSET (1..Len(AnchorPool)) :
                                         Cardinality(T) <= MaxAnchors}}
  /\ sheet \in {<<>>, <<HeaderRow>>}
  /\ CrawlIdle
  /\ ClassifierIdle

----------------------------------------------------------------------------
(* The "Start Scraping" handler, up to the call of scrape_logic *)

\* not url_input or not keywords_input
InputMissing == url_input = <<>> \/ keywords_input = <<>>

ValidationError ==
  /\ pc = "idle"
  /\ InputMissing
  /\ shown' = shown \cup {"validation_error"}
  /\ pc' = "finished"
  /\ UNCHANGED <<url_input, keywords_input, picked, sheet, keywords_list,
                 all_data, visited_urls, child_links, todo, link, run_results,
                 status, calls>>
  /\ UNCHANGED classifier_vars

\* setup_google_sheets returned an error
AuthenticationError ==
  /\ pc = "idle"
  /\ ~InputMissing
  /\ keywords_list' = ParseKeywords(keywords_input)
  /\ shown' = shown \cup {"authentication_error", "authentication_hint"}
  /\ pc' = "finished"
  /\ UNCHANGED <<url_input, keywords_input, picked, sheet, all_data,
                 visited_urls, child_links, todo, link, run_results, status,
                 calls>>
  /\ UNCHANGED classifier_vars

\* the worksheet opened: scrape_logic is entered and announces Phase 1
StartScraping ==
  /\ pc = "idle"
  /\ ~InputMissing
  /\ keywords_list' = ParseKeywords(keywords_input)
  /\ all_data' = <<>>
  /\ visited_urls' = {}
  /\ status' = "phase1"
  /\ pc' = "phase1"
  /\ UNCHANGED <<url_input, keywords_input, picked, sheet, child_links, todo,
                 link, run_results, shown, calls>>
  /\ UNCHANGED classifier_vars

----------------------------------------------------------------------------
(* scrape_logic *)

\* a variant that forgets the seed page was fetched (no visited_urls.add(base_url))
AlreadyVisited_SeedForgotten(l) == l \in visited_urls \ {url_input}

\* link in visited_urls
AlreadyVisited(l) == l \in visited_urls

\* Phase 1, the seed fetch answered: classify, discover links, then either
\* announce Phase 2 or warn that there are no sub-links and return
Phase1Fetched ==
  /\ pc = "phase1"
  /\ calls' = Append(calls, Get(url_input, TRUE))
  /\ all_data' = all_data \o
       Tagged(get_structured_data(PageOf(url_input, picked), keywords_list),
              url_input)
  /\ child_links' =
       find_relevant_links(url_input, PageOf(url_input, picked), keywords_list)
  /\ visited_urls' = visited_urls \cup {url_input}
  /\ IF child_links' # {}
     THEN /\ status' = "phase2"
          /\ todo' = child_links'
          /\ run_results' = run_results
          /\ pc' = "loop"
     ELSE /\ status' = "no_sublinks"
          /\ todo' = todo
          /\ run_results' = all_data'
          /\ pc' = "returned"
  /\ UNCHANGED <<url_input, keywords_input, picked, sheet, keywords_list,
                 link, shown>>
  /\ UNCHANGED classifier_vars

\* a variant that swallows the seed failure the way Phase 2 does (pass)
Phase1Failed_Silent ==
  /\ pc = "phase1"
  /\ calls' = Append(calls, Get(url_input, FALSE))
  /\ status' = "no_sublinks"
  /\ run_results' = all_data
  /\ pc' = "returned"
  /\ UNCHANGED <<url_input, keywords_input, picked, sheet, keywords_list,
                 all_data, visited_urls, child_links, todo, link, shown>>
  /\ UNCHANGED classifier_vars

\* Phase 1, the seed fetch raised: st.error and return []
Phase1Failed ==
  /\ pc = "phase1"
  /\ calls' = Append(calls, Get(url_input, FALSE))
  /\ shown' = shown \cup {"home_page_error"}
  /\ run_results' = <<>>
  /\ pc' = "returned"
  /\ UNCHANGED <<url_input, keywords_input, picked, sheet, keywords_list,
                 all_data, visited_urls, child_links, todo, link, status>>
  /\ UNCHANGED classifier_vars

\* a variant that sleeps before it looks the link up in visited_urls
LoopSkip_Sleeps ==
  /\ pc = "loop"
  /\ \E l \in todo :
       /\ AlreadyVisited(l)
       /\ link' = l
       /\ todo' = todo \ {l}
       /\ calls' = Append(calls, Sleep(l))
  /\ UNCHANGED <<url_input, keywords_input, picked, sheet, pc, keywords_list,
                 all_data, visited_urls, child_links, run_results, status,
                 shown>>
  /\ UNCHANGED classifier_vars

\* the for loop reaches a link that is already visited: continue
LoopSkip ==
  /\ pc = "loop"
  /\ \E l \in todo :
       /\ AlreadyVisited(l)
       /\ link' = l
       /\ todo' = todo \ {l}
  /\ UNCHANGED <<url_input, keywords_input, picked, sheet, pc, keywords_list,
                 all_data, visited_urls, child_links, run_results, status,
                 shown, calls>>
  /\ UNCHANGED classifier_vars

\* the for loop reaches a new link: show it, then time.sleep(1.0)
LoopSleep ==
  /\ pc = "loop"
  /\ \E l \in todo :
       /\ ~AlreadyVisited(l)
       /\ link' = l
       /\ todo' = todo \ {l}
       /\ calls' = Append(calls, Sleep(l))
  /\ status' = "scanning"
  /\ pc' = "fetch"
  /\ UNCHANGED <<url_input, keywords_input, picked, sheet, keywords_list,
                 all_data, visited_urls, child_links, run_results, shown>>
  /\ UNCHANGED classifier_vars

\* the child fetch answered: classify, append, mark visited
ChildFetched ==
  /\ pc = "fetch"
  /\ calls' = Append(calls, Get(link, TRUE))
  /\ all_data' = all_data \o
       Tagged(get_structured_data(PageOf(link, picked), keywords_list), link)
  /\ visited_urls' = visited_urls \cup {link}
  /\ pc' = "loop"
  /\ UNCHANGED <<url_input, keywords_input, picked, sheet, keywords_list,
                 child_links, todo, link, run_results, status, shown>>
  /\ UNCHANGED classifier_vars

\* a variant that treats a child failure like a seed failure
ChildFailed_Aborts ==
  /\ pc = "fetch"
  /\ calls' = Append(calls, Get(link, FALSE))
  /\ shown' = shown \cup {"home_page_error"}
  /\ run_results' = <<>>
  /\ pc' = "returned"
  /\ UNCHANGED <<url_input, keywords_input, picked, sheet, keywords_list,
                 all_data, visited_urls, child_links, todo, link, status>>
  /\ UNCHANGED classifier_vars

\* a variant that leaves the loop at the first child failure (break)
ChildFailed_Breaks ==
  /\ pc = "fetch"
  /\ calls' = Append(calls, Get(link, FALSE))
  /\ run_results' = all_data
  /\ pc' = "returned"
  /\ UNCHANGED <<url_input, keywords_input, picked, sheet, keywords_list,
                 all_data, visited_urls, child_links, todo, link, status,
                 shown>>
  /\ UNCHANGED classifier_vars

\* the child fetch raised: pass, mark visited
ChildFailed ==
  /\ pc = "fetch"
  /\ calls' = Append(calls, Get(link, FALSE))
  /\ visited_urls' = visited_urls \cup {link}
  /\ pc' = "loop"
  /\ UNCHANGED <<url_input, keywords_input, picked, sheet, keywords_list,
                 all_data, child_links, todo, link, run_results, status, shown>>
  /\ UNCHANGED classifier_vars

\* the for loop is exhausted: progress_bar.empty() and return all_data
LoopDone ==
  /\ pc = "loop"
  /\ todo = {}
  /\ run_results' = all_data
  /\ pc' = "returned"
  /\ UNCHANGED <<url_input, keywords_input, picked, sheet, keywords_list,
                 all_data, visited_urls, child_links, todo, link, status,
                 shown, calls>>
  /\ UNCHANGED classifier_vars

----------------------------------------------------------------------------
(* The handler, after scrape_logic returned *)

WithHeader(rows) == IF rows = <<>> THEN <<HeaderRow>> ELSE rows

\* results is non-empty and the export goes through
ReportExported ==
  /\ pc = "returned"
  /\ run_results # <<>>
  /\ status' = "success"
  /\ sheet' = WithHeader(sheet) \o RowsOf(run_results)
  /\ shown' = shown \cup {"preview", "exported"}
  /\ pc' = "finished"
  /\ UNCHANGED <<url_input, keywords_input, picked, keywords_list, all_data,
                 visited_urls, child_links, todo, link, run_results, calls>>
  /\ UNCHANGED classifier_vars

\* results is non-empty and the export raises, before or after the header row
ReportExportFailed ==
  /\ pc = "returned"
  /\ run_results # <<>>
  /\ status' = "success"
  /\ sheet' \in {sheet, WithHeader(sheet)}
  /\ shown' = shown \cup {"preview", "export_error"}
  /\ pc' = "finished"
  /\ UNCHANGED <<url_input, keywords_input, picked, keywords_list, all_data,
                 visited_urls, child_links, todo, link, run_results, calls>>
  /\ UNCHANGED classifier_vars

\* results is empty: the "No data found" warning
ReportNoData ==
  /\ pc = "returned"
  /\ run_results = <<>>
  /\ status' = "no_data"
  /\ pc' = "finished"
  /\ UNCHANGED <<url_input, keywords_input, picked, sheet, keywords_list,
                 all_data, visited_urls, child_links, todo, link, run_results,
                 shown, calls>>
  /\ UNCHANGED classifier_vars

Next ==
  \/ ValidationError
  \/ AuthenticationError
  \/ StartScraping
  \/ Phase1Fetched
  \/ Phase1Failed
  \/ LoopSkip
  \/ LoopSleep
  \/ ChildFetched
  \/ ChildFailed
  \/ LoopDone
  \/ ReportExported
  \/ ReportExportFailed
  \/ ReportNoData

Spec == Init /\ [][Next]_vars

----------------------------------------------------------------------------
(* One call of get_structured_data, a loop iteration per step *)

ClassifierInit ==
  /\ url_input = <<>>
  /\ keywords_input = <<>>
  /\ picked = <<>>
  /\ sheet = <<>>
  /\ CrawlIdle
  /\ soup \in ClassifierPages
  /\ keywords \in KeywordLists
  /\ gs_pc = "keyword"
  /\ kw_idx = 0
  /\ matches = <<>>
  /\ match_idx = 0
  /\ seen_blocks = {}
  /\ block_text = <<>>
  /\ context_type = "none"
  /\ results = <<>>

\* for kw in keywords: find the matches, start an empty seen_blocks
NextKeyword ==
  /\ gs_pc = "keyword"
  /\ kw_idx < Len(keywords)
  /\ kw_idx' = kw_idx + 1
  /\ matches' = FindMatches(soup, keywords[kw_idx + 1])
  /\ seen_blocks' = {}
  /\ match_idx' = 0
  /\ gs_pc' = "match"
  /\ UNCHANGED <<soup, keywords, block_text, context_type, results>>
  /\ UNCHANGED crawl_vars

\* for match in matches: classify, build block_text, filter, append
ClassifyMatch ==
  /\ gs_pc = "match"
  /\ match_idx < Len(matches)
  /\ match_idx' = match_idx + 1
  /\ context_type' =
       ContextTypeOf(soup, ParentOf(soup, matches[match_idx + 1]))
  /\ block_text' = BlockTextOf(soup, keywords[kw_idx], matches[match_idx + 1])
  /\ results' = results \o
       RecordsOfMatch(soup, keywords[kw_idx], matches[match_idx + 1], seen_blocks)
  /\ seen_blocks' =
       SeenAfterMatch(soup, keywords[kw_idx], matches[match_idx + 1], seen_blocks)
  /\ UNCHANGED <<gs_pc, soup, keywords, kw_idx, matches>>
  /\ UNCHANGED crawl_vars

\* the matches of this keyword are exhausted
MatchesDone ==
  /\ gs_pc = "match"
  /\ match_idx = Len(matches)
  /\ gs_pc' = "keyword"
  /\ UNCHANGED <<soup, keywords, kw_idx, matches, match_idx, seen_blocks,
                 block_text, context_type, results>>
  /\ UNCHANGED crawl_vars

\* the keywords are exhausted: return results
ReturnResults ==
  /\ gs_pc = "keyword"
  /\ kw_idx = Len(keywords)
  /\ gs_pc' = "done"
  /\ UNCHANGED <<soup, keywords, kw_idx, matches, match_idx, seen_blocks,
                 block_text, context_type, results>>
  /\ UNCHANGED crawl_vars

ClassifierNext ==
  \/ NextKeyword
  \/ ClassifyMatch
  \/ MatchesDone
  \/ ReturnResults

ClassifierSpec == ClassifierInit /\ [][ClassifierNext]_vars

\* the loops, run step by step, return what get_structured_data computes
StepsAgreeWithFunction ==
  gs_pc = "done" => results = get_structured_data(soup, keywords)

----------------------------------------------------------------------------
(* Properties of the crawl *)

IsGet(i) == calls[i].op = "get"

SeedFailed == calls # <<>> /\ ~calls[1].ok

SeedFetched == calls # <<>> /\ calls[1].ok

Returned == pc \in {"returned", "finished"}

\* the child fetches that raised / that answered
FailedChildren == {i \in 2..Len(calls) : IsGet(i) /\ ~calls[i].ok}

FetchedChildren == {i \in 2..Len(calls) : IsGet(i) /\ calls[i].ok}

\* the records of the page at url, tagged with url
RecordsAt(url) ==
  Tagged(get_structured_data(PageOf(url, picked), keywords_list), url)

\* the records of the fetches that answered, in the order of the fetches
RECURSIVE AnsweredRecords(_)
AnsweredRecords(i) ==
  IF i > Len(calls) THEN <<>>
  ELSE IF IsGet(i) /\ calls[i].ok
       THEN RecordsAt(calls[i].url) \o AnsweredRecords(i + 1)
       ELSE AnsweredRecords(i + 1)

\* C1: when the seed fetch fails the run is over at once: the error is shown,
\* scrape_logic returns the empty list, nothing was collected and no further
\* fetch (nor pause) is ever made.
C1_SeedFailureAborts ==
  SeedFailed =>
    /\ Returned
    /\ "home_page_error" \in shown
    /\ run_results = <<>>
    /\ all_data = <<>>
    /\ Len(calls) = 1

\* a run that hit a seed failure and whose handler has finished
C1_Witness == SeedFailed /\ pc = "finished" /\ keywords_list # <<>>

\* C2: when the seed fetch answered, scrape_logic returns the Phase-1 records
\* followed by the records of exactly the child links whose fetch answered, in
\* visiting order; no record carries the URL of a link whose fetch failed; and
\* no error is shown for a failed link, whichever links fail in whichever order.
C2_ChildFailureIsSkipped ==
  (pc = "returned" /\ SeedFetched) =>
    /\ run_results = AnsweredRecords(1)
    /\ SubSeq(run_results, 1, Len(RecordsAt(url_input))) = RecordsAt(url_input)
    /\ \A i \in FailedChildren :
         \A k \in 1..Len(run_results) : run_results[k].url # calls[i].url
    /\ shown = {}

\* a run returned with Phase-1 records, a failed child link, and a later child
\* link that answered with records
C2_Witness ==
  /\ pc = "returned"
  /\ SeedFetched
  /\ RecordsAt(url_input) # <<>>
  /\ \E i \in FailedChildren : \E j \in FetchedChildren :
       i < j /\ RecordsAt(calls[j].url) # <<>>

\* C3 (as claimed): an empty keyword list means no record and no fetch at all,
\* for every input the handler's validation lets through.
C3_EmptyKeywordsNoFetch ==
  (pc # "idle" /\ keywords_list = <<>>) => (calls = <<>> /\ all_data = <<>>)

\* C4: no URL is fetched twice in a run (so the seed is not fetched again as a
\* child and a link found through several anchors is fetched once), and
\* visited_urls never loses a member.
C4_NoRefetch ==
  /\ [](\A i, j \in 1..Len(calls) :
          (i < j /\ IsGet(i) /\ IsGet(j)) => calls[i].url # calls[j].url)
  /\ [][visited_urls \subseteq visited_urls']_vars

\* a finished Phase 2 on a seed page that links to itself and carries two
\* anchors resolving to one child URL
C4_Witness ==
  /\ pc = "returned"
  /\ url_input \in child_links
  /\ \E a, b \in AnchorsOf(SeedDoc(picked)) :
       /\ a # b
       /\ urljoin(url_input, SeedDoc(picked)[a].href)
            = urljoin(url_input, SeedDoc(picked)[b].href)
       /\ \E i \in FetchedChildren :
            calls[i].url = urljoin(url_input, SeedDoc(picked)[a].href)

\* C5 (as claimed): "No data found" is shown only for a run that completed; a
\* run aborted by the seed failure never shows it.
C5_NoDataOnlyWhenCompleted == status = "no_data" => ~SeedFailed

\* a bound on the steps a run still takes: two per link the loop has not
\* reached, and the position in the handler
Rank ==
  CASE pc = "idle"     -> 2 * Len(picked) + 6
    [] pc = "phase1"   -> 2 * Len(picked) + 5
    [] pc = "fetch"    -> 2 * Cardinality(todo) + 4
    [] pc = "loop"     -> 2 * Cardinality(todo) + 3
    [] pc = "returned" -> 1
    [] OTHER           -> 0

\* some step of the handler or of scrape_logic can be taken: the guards of the
\* actions, whose assignments can always be made
StepPossible ==
  \/ pc \in {"idle", "phase1", "fetch", "returned"}
  \/ pc = "loop" /\ todo = {}
  \/ pc = "loop" /\ \E l \in todo : AlreadyVisited(l) \/ ~AlreadyVisited(l)

\* C6: every run terminates (each step lowers a natural-number rank, and a
\* step is possible until the handler has finished); when the seed fetch
\* answered, scrape_logic returns only with the loop exhausted, every
\* candidate link fetched or attempted and visited_urls equal to the seed plus
\* all candidates, however many child fetches failed; and after the return
\* the data do not change.
C6_RunsToCompletion ==
  /\ [][Rank' < Rank /\ Rank' >= 0]_vars
  /\ [](pc # "finished" => StepPossible)
  /\ []((Returned /\ SeedFetched) =>
          /\ todo = {}
          /\ visited_urls = {url_input} \cup child_links
          /\ \A l \in child_links : \E i \in 1..Len(calls) :
               IsGet(i) /\ calls[i].url = l)
  /\ [][Returned => (all_data' = all_data /\ run_results' = run_results)]_vars

\* a returned run with at least two candidate links, all of whose fetches failed
C6_Witness ==
  /\ pc = "returned"
  /\ SeedFetched
  /\ Cardinality(child_links \ {url_input}) >= 2
  /\ FetchedChildren = {}
  /\ Cardinality(FailedChildren) >= 2

\* C7: every fetch after the first comes right after exactly one pause, and
\* that pause comes right after the previous fetch, failed or not; a candidate
\* skipped as already visited has neither a pause nor a fetch.
C7_OnePauseBetweenFetches ==
  /\ \A i \in 2..Len(calls) :
       IsGet(i) => (i >= 3 /\ ~IsGet(i - 1) /\ IsGet(i - 2)
                      /\ calls[i - 1].url = calls[i].url)
  /\ \A i \in 1..Len(calls) : ~IsGet(i) => (i >= 2 /\ IsGet(i - 1))
  /\ \A i \in 2..Len(calls) : calls[i].url \notin {calls[1].url}

\* a returned run that skipped the seed as a candidate and fetched one link
\* after another link's fetch had failed
C7_Witness ==
  /\ pc = "returned"
  /\ url_input \in child_links
  /\ \E i \in FailedChildren : i + 2 \in FetchedChildren

\* C8 (as claimed): a run's result never holds two records with the same
\* keyword, url and context, and every keyword's records of every fetched
\* page are in it.
C8_NoDuplicateRecords ==
  /\ \A i, j \in 1..Len(all_data) :
       i < j => <<all_data[i].keyword, all_data[i].url, all_data[i].context>>
                  # <<all_data[j].keyword, all_data[j].url, all_data[j].context>>
  /\ Returned /\ SeedFetched =>
       \A c \in 1..Len(calls) : \A k \in 1..Len(keywords_list) :
         (IsGet(c) /\ calls[c].ok) =>
           \A r \in 1..Len(Tagged(get_structured_data(
                             PageOf(calls[c].url, picked), <<keywords_list[k]>>),
                             calls[c].url)) :
             \E d \in 1..Len(all_data) :
               all_data[d] = Tagged(get_structured_data(
                               PageOf(calls[c].url, picked), <<keywords_list[k]>>),
                               calls[c].url)[r]

----------------------------------------------------------------------------
(* Properties of the classifier *)

\* the tags around a match, the immediate container first
Enclosing(doc, match) ==
  [k \in 1..Len(Parents(doc, match)) |-> NameOf(doc, Parents(doc, match)[k])]

Encloses(doc, match, name) ==
  \E k \in 1..Len(Enclosing(doc, match)) : Enclosing(doc, match)[k] = name

\* the four rules in the claimed order
ClaimedType(doc, match) ==
  IF Encloses(doc, match, "tr") THEN "Table Row"
  ELSE IF Enclosing(doc, match)[1] \in HeaderTags THEN "Section Header"
  ELSE IF Encloses(doc, match, "li") THEN "List Item"
  ELSE "Text Block"

Classified == gs_pc = "match" /\ match_idx > 0

\* C9 (as claimed): every match gets the type of the first applicable rule
\* among: inside a tr, immediately inside a heading/dt/bold element, inside
\* an li, none of these.
C9_FirstApplicableRule ==
  Classified => context_type = ClaimedType(soup, matches[match_idx])

\* the match just classified produced a record
Emitted ==
  /\ Classified
  /\ results # <<>>
  /\ results[Len(results)].keyword = keywords[kw_idx]
  /\ results[Len(results)].context = block_text

\* the normalized text of the fallback container of the match just classified
WholeBlock ==
  clean_text(get_text(soup,
               ContainerOf(soup, ParentOf(soup, matches[match_idx])), <<" ">>))

\* C10 (as claimed): a Text Block snippet cut from a block of more than 300
\* characters starts and ends with "...", has at most 50 + 150 characters in
\* between, and contains the keyword, case-insensitively.
C10_TruncatedSnippet ==
  (Emitted /\ context_type = "Text Block" /\ Len(WholeBlock) > TruncateOver) =>
    /\ SubSeq(block_text, 1, 3) = Ellipsis
    /\ SubSeq(block_text, Len(block_text) - 2, Len(block_text)) = Ellipsis
    /\ Len(block_text) - 6 <= WindowBefore + WindowAfter
    /\ Contains(Lower(block_text), Lower(keywords[kw_idx]))

====
